---- MODULE Spec2Model ----
(***************************************************************************)
(* A model of utymap's MeshCache (core/src/builders/MeshCache.cpp): the    *)
(* registry of quadkeys being cached, the callbacks that tee builder       *)
(* output to a cache file, the reader that replays a cache file, and the   *)
(* teardown in unwrap.  Pipeline threads call wrap, the wrapped callbacks, *)
(* unwrap and fetch; every step a thread takes outside lock_ interleaves   *)
(* with the steps of the other threads.                                    *)
(***************************************************************************)
EXTENDS Integers, Sequences, FiniteSets, TLC

\* ------------------------------------------------------------------ bounds

\* The number of values one builder run passes to its callbacks.
MaxProduce == 2

\* ------------------------------------------------------- program constants

ElementType == 0
MeshType == 1

\* sizeof(element.id): the identifier is written as its 8-byte object
\* representation (little-endian on the modelled platform).
IdSize == 8

\* std::isspace in the "C" locale: the bytes a formatted extraction skips.
Whitespace == {9, 10, 11, 12, 13, 32}

\* ------------------------------------------------------------ the callers

Threads == {"t1", "t2", "t3"}
NoThread == "none"

\* The threads that call the cache when two of them contend.
Callers == {"t1", "t2"}

Tags == {"day", "night"}

QuadKeys == {[levelOfDetail |-> 1, code |-> "0"], [levelOfDetail |-> 2, code |-> "01"]}

\* A BuilderContext, as far as the cache reads it: the quadkey and the tag
\* of the style provider.  The callbacks are the caller's own.
Contexts == [quadKey : QuadKeys, tag : Tags]
NoContext == [quadKey |-> [levelOfDetail |-> 0, code |-> ""], tag |-> ""]

dataPath_ == "/data/"

\* GeoUtils::quadKeyToString, an external collaborator: the canonical string.
quadKeyToString(quadKey) == quadKey.code

\* The directory part and the whole of the path getFilePath composes.
getDirectory(context) ==
    <<dataPath_, "cache/", context.tag, "/", context.quadKey.levelOfDetail, "/">>

\* A path that does not depend on the quadkey.
getFilePath_StyleOnly(context) ==
    <<dataPath_, "cache/", context.tag, "/", 1, "/", "0", ".mesh">>

getFilePath(context) ==
    getDirectory(context) \o <<quadKeyToString(context.quadKey), ".mesh">>

Paths == {getFilePath(c) : c \in Contexts}

\* The directories of the disk.  The cache creates none: an open for writing
\* of a file in a directory that is missing fails.
Directories == {getDirectory(c) : c \in {x \in Contexts : x.tag = "day"}}

DirectoryOf(filePath) == SubSeq(filePath, 1, Len(filePath) - 2)

\* ------------------------------------------------------------- the values

Mesh(body) == [kind |-> "mesh", id |-> 0, body |-> body]
Element(id, body) == [kind |-> "element", id |-> id, body |-> body]

\* The values the builders of this model produce: one mesh whose payload is
\* a whitespace byte and one element with identifier 42.
Values == {Mesh(32), Element(42, 7)}

\* The i-th value the build of a tile produces.  A build is a function of
\* its context: the tiles of style "day" start with the mesh, those of style
\* "night" with the element, and the two kinds alternate.
BuildValue(context, i) ==
    IF (i % 2 = 1) = (context.tag = "day") THEN Mesh(32) ELSE Element(42, 7)

\* What a read of an uninitialised identifier or from an exhausted stream
\* can yield.
Indeterminate == {Mesh(0), Mesh(32), Element(0, 0), Element(42, 7)}

\* MeshStream::write / ElementStream::write: the codecs are external; each
\* writes a payload that its read consumes exactly (here one byte).
MeshStreamWrite(mesh) == <<mesh.body>>
ElementStreamWrite(element) == <<element.body>>
PayloadSize == 1

RECURSIVE ObjectBytes(_, _)
\* reinterpret_cast<const char*>(&element.id): n bytes, least significant first.
ObjectBytes(id, n) ==
    IF n = 0 THEN <<>> ELSE <<id % 256>> \o ObjectBytes(id \div 256, n - 1)

RECURSIVE FromObjectBytes(_)
FromObjectBytes(bytes) ==
    IF bytes = <<>> THEN 0 ELSE Head(bytes) + 256 * FromObjectBytes(Tail(bytes))

\* What the wrapped mesh callback puts on the stream for one mesh.
MeshRecord(mesh) == <<MeshType>> \o MeshStreamWrite(mesh)

\* What the wrapped element callback puts on the stream for one element.
ElementRecord(element) ==
    <<ElementType>> \o ObjectBytes(element.id, IdSize) \o ElementStreamWrite(element)

Record(value) ==
    IF value.kind = "mesh" THEN MeshRecord(value) ELSE ElementRecord(value)

\* ------------------------------------------------------------------ state

VARIABLES
    isEnabled_,     \* MeshCache::isEnabled_
    lock_,          \* MeshCacheImpl::lock_: the thread holding it, or NoThread
    cachingQuads_,  \* MeshCacheImpl::cachingQuads_: quadkey -> its fstream
    files,          \* the disk: path -> the bytes of the file at that path
    crashed,        \* the process has died in undefined behaviour
    pc,             \* where each thread is
    ctx,            \* the context of the call each thread is in
    token,          \* the cancellation token of the call each thread is in
    sref,           \* the stream the thread's wrapped callbacks refer to
    alias,          \* the registry streams allocated after that stream died
    opened,         \* whether wrap's open of the cache file succeeded
    produced,       \* the values the thread's builder passed to its callbacks
    delivered,      \* the values that reached the caller's own callbacks
    rpos,           \* readCache: the number of bytes read
    rlinked,        \* readCache: the path still names the file it opened
    rsnap,          \* readCache: the bytes of its file once it was unlinked
    ret,            \* the outcome of fetch
    found,          \* history: unwrap found a registry entry
    kept,           \* history: the thread's build was wrapped and not cancelled
    sealed          \* history: the files whose session was closed and kept

tvars == <<pc, ctx, token, sref, alias, opened, produced, delivered>>
rvars == <<rpos, rlinked, rsnap, ret>>
hvars == <<found, kept, sealed>>
vars == <<isEnabled_, lock_, cachingQuads_, files, crashed, tvars, rvars, hvars>>

\* The disk and the registry are maps: a path without a file and a quadkey
\* without an entry are outside the domain.
Exists(filePath) == filePath \in DOMAIN files
HasEntry(quadKey) == quadKey \in DOMAIN cachingQuads_

\* m with key k mapped to v, and m without key k.
Put(m, k, v) == [x \in DOMAIN m \cup {k} |-> IF x = k THEN v ELSE m[x]]
Drop(m, k) == [x \in DOMAIN m \ {k} |-> m[x]]

\* The state after construction, on a disk that holds `disk`.
Start(disk) ==
    /\ isEnabled_ = TRUE
    /\ lock_ = NoThread
    /\ cachingQuads_ = << >>
    /\ files = disk
    /\ crashed = FALSE
    /\ pc = [t \in Threads |-> "idle"]
    /\ ctx = [t \in Threads |-> NoContext]
    /\ token = [t \in Threads |-> FALSE]
    /\ sref = [t \in Threads |-> "none"]
    /\ alias = [t \in Threads |-> {}]
    /\ opened = [t \in Threads |-> FALSE]
    /\ produced = [t \in Threads |-> <<>>]
    /\ delivered = [t \in Threads |-> <<>>]
    /\ rpos = [t \in Threads |-> 0]
    /\ rlinked = [t \in Threads |-> FALSE]
    /\ rsnap = [t \in Threads |-> <<>>]
    /\ ret = [t \in Threads |-> "none"]
    /\ found = [t \in Threads |-> FALSE]
    /\ kept = [t \in Threads |-> FALSE]
    /\ sealed = {}

\* The cache starts on an empty cache directory.
Init == Start(<< >>)

\* --------------------------------------------------------------- registry

\* std::ifstream(filePath).good(): the file exists and can be opened.
Readable(filePath) == Exists(filePath)

\* isCacheHit without the look-up in the registry.
isCacheHit_FileOnly(quadKey, filePath) == Readable(filePath)

isCacheHit(quadKey, filePath) ==
    ~HasEntry(quadKey) /\ Readable(filePath)

\* file->open(filePath, out | binary | app | ate): succeeds on a file that
\* exists, creates a missing file when its directory exists, fails otherwise.
OpenForAppend(filePath) ==
    Exists(filePath) \/ DirectoryOf(filePath) \in Directories

\* A write of bytes through the fstream of registry entry q: an open stream
\* appends to its file; a stream that is closed or whose open failed takes
\* the failed state and drops the bytes.
StreamWrite(quadKey, bytes) ==
    LET s == cachingQuads_[quadKey] IN
    IF s.good /\ s.open
    THEN /\ files' = IF Exists(s.path)
                     THEN [files EXCEPT ![s.path] = @ \o bytes]
                     ELSE files
         /\ UNCHANGED cachingQuads_
    ELSE /\ cachingQuads_' = [cachingQuads_ EXCEPT ![quadKey].good = FALSE]
         /\ UNCHANGED files

\* ------------------------------------------------------------------- wrap

\* MeshCache::wrap and both MeshCacheImpl::wrap overloads.
wrap(t, context) ==
    /\ ~crashed
    /\ pc[t] = "idle"
    /\ isEnabled_ => lock_ = NoThread
    /\ LET q == context.quadKey
           filePath == getFilePath(context)
           ok == OpenForAppend(filePath)
       IN
       IF ~isEnabled_ \/ isCacheHit(q, filePath)
       THEN \* the context is returned as it is
            /\ sref' = [sref EXCEPT ![t] = "none"]
            /\ alias' = [alias EXCEPT ![t] = {}]
            /\ opened' = [opened EXCEPT ![t] = FALSE]
            /\ UNCHANGED <<cachingQuads_, files>>
       ELSE /\ files' = IF ok /\ ~Exists(filePath)
                        THEN Put(files, filePath, <<>>)
                        ELSE files
            /\ opened' = [opened EXCEPT ![t] = ok]
            /\ IF ~HasEntry(q)
               THEN \* insert: the registry shares the stream
                    /\ cachingQuads_' = Put(cachingQuads_, q,
                                            [path |-> filePath, good |-> ok, open |-> ok])
                    /\ sref' = [sref EXCEPT ![t] = "live"]
                    /\ alias' = [u \in Threads |->
                                   IF u = t THEN {}
                                   ELSE IF sref[u] = "dangling" THEN alias[u] \cup {q}
                                   ELSE alias[u]]
               ELSE \* insert changes nothing: the only owner of the new
                    \* stream is the local `file`, which dies at the return
                    /\ UNCHANGED cachingQuads_
                    /\ sref' = [sref EXCEPT ![t] = "dangling"]
                    /\ alias' = [alias EXCEPT ![t] = {}]
    /\ pc' = [pc EXCEPT ![t] = "build"]
    /\ ctx' = [ctx EXCEPT ![t] = context]
    /\ UNCHANGED <<isEnabled_, lock_, crashed, token, produced, delivered, rvars, hvars>>

\* One call of a callback of the context wrap returned, by the builder of
\* thread t.  A callback that was not replaced is the caller's own.  A
\* replaced one writes the record to the stream it refers to and then calls
\* the caller's own; when that stream has been destroyed the write is
\* undefined: it is lost, it lands in a stream allocated since at the same
\* address, or the process dies.
callback(t) ==
    LET value == BuildValue(ctx[t], Len(produced[t]) + 1) IN
    /\ ~crashed
    /\ pc[t] = "build"
    /\ Len(produced[t]) < MaxProduce
    /\ produced' = [produced EXCEPT ![t] = Append(@, value)]
    /\ \/ /\ sref[t] = "none"
          /\ delivered' = [delivered EXCEPT ![t] = Append(@, value)]
          /\ UNCHANGED <<cachingQuads_, files, crashed>>
       \/ /\ sref[t] = "live"
          /\ StreamWrite(ctx[t].quadKey, Record(value))
          /\ delivered' = [delivered EXCEPT ![t] = Append(@, value)]
          /\ UNCHANGED crashed
       \/ /\ sref[t] = "dangling"
          /\ \/ /\ delivered' = [delivered EXCEPT ![t] = Append(@, value)]
                /\ UNCHANGED <<cachingQuads_, files, crashed>>
             \/ /\ \E q \in alias[t] :
                      /\ HasEntry(q)
                      /\ StreamWrite(q, Record(value))
                /\ delivered' = [delivered EXCEPT ![t] = Append(@, value)]
                /\ UNCHANGED crashed
             \/ /\ crashed' = TRUE
                /\ UNCHANGED <<cachingQuads_, files, delivered>>
    /\ UNCHANGED <<isEnabled_, lock_, pc, ctx, token, sref, alias, opened, rvars, hvars>>

\* ----------------------------------------------------------------- unwrap

\* The bytes of the file readCache has open.
View(t) == IF rlinked[t] THEN files[getFilePath(ctx[t])] ELSE rsnap[t]

\* What is left of the thread's build once unwrap has returned: the values
\* it produced, when the build was wrapped and not cancelled.
AfterUnwrap(t, cancelled, hadEntry) ==
    /\ pc' = [pc EXCEPT ![t] = "unwrap_done"]
    /\ found' = [found EXCEPT ![t] = hadEntry]
    /\ kept' = [kept EXCEPT ![t] = sref[t] # "none" /\ opened[t] /\ ~cancelled]
    /\ produced' = [produced EXCEPT ![t] = IF kept'[t] THEN @ ELSE <<>>]
    /\ delivered' = [delivered EXCEPT ![t] = <<>>]
    /\ opened' = [opened EXCEPT ![t] = FALSE]

\* unwrap: the files a call for `context` removes.  Nothing when the quadkey
\* has no entry (the early return); the file of the context, not the file of
\* the entry's stream, when the token is cancelled.
\* unwrap with the remove ahead of the check for an entry.
unwrapRemoved_BeforeFind(context, cancelled) ==
    IF cancelled THEN {getFilePath(context)} ELSE {}

unwrapRemoved(context, cancelled) ==
    IF HasEntry(context.quadKey) /\ cancelled THEN {getFilePath(context)} ELSE {}

\* MeshCache::unwrap and MeshCacheImpl::unwrap up to the erase: lock, find,
\* return when there is no entry, close the stream when it is good, remove
\* the file of the context when the token is cancelled.  `cancelled` is what
\* cancelToken.isCancelled() answers in this call.  A reader that has the
\* removed file open keeps the unlinked file.
unwrapRemove(t, cancelled) ==
    /\ ~crashed
    /\ pc[t] = "build"
    /\ lock_ = NoThread
    /\ token' = [token EXCEPT ![t] = cancelled]
    /\ LET q == ctx[t].quadKey
           removed == unwrapRemoved(ctx[t], cancelled) \cap DOMAIN files
           unlinked(u) == pc[u] = "read" /\ rlinked[u] /\ getFilePath(ctx[u]) \in removed
       IN
       /\ files' = [p \in DOMAIN files \ removed |-> files[p]]
       /\ sealed' = sealed \ removed
       /\ rsnap' = [u \in Threads |-> IF unlinked(u) THEN View(u) ELSE rsnap[u]]
       /\ rlinked' = [u \in Threads |-> rlinked[u] /\ ~unlinked(u)]
       /\ IF ~HasEntry(q)
          THEN /\ AfterUnwrap(t, cancelled, FALSE)
               /\ sref' = [sref EXCEPT ![t] = "none"]
               /\ alias' = [alias EXCEPT ![t] = {}]
               /\ UNCHANGED <<lock_, cachingQuads_>>
          ELSE /\ lock_' = t
               /\ pc' = [pc EXCEPT ![t] = "unwrap_erase"]
               /\ cachingQuads_' = IF cachingQuads_[q].good
                                   THEN [cachingQuads_ EXCEPT ![q].open = FALSE]
                                   ELSE cachingQuads_
               /\ UNCHANGED <<sref, alias, opened, produced, delivered, found, kept>>
    /\ UNCHANGED <<isEnabled_, crashed, ctx, rpos, ret>>

\* An unwrap that returns with the lock still held.
Released_Leak(t) == t

\* The holder of lock_ once the std::lock_guard of thread t is destroyed.
Released(t) == NoThread

\* unwrap: cachingQuads_.erase(entry), which destroys the stream, and the
\* release of the lock at the return.
unwrapErase(t) ==
    /\ ~crashed
    /\ pc[t] = "unwrap_erase"
    /\ LET q == ctx[t].quadKey
           filePath == cachingQuads_[q].path
           wasLive(u) == sref[u] = "live" /\ ctx[u].quadKey = q
       IN
       /\ cachingQuads_' = Drop(cachingQuads_, q)
       /\ sref' = [u \in Threads |->
                     IF u = t THEN "none" ELSE IF wasLive(u) THEN "dangling" ELSE sref[u]]
       /\ alias' = [u \in Threads |->
                      IF u = t \/ wasLive(u) THEN {} ELSE alias[u] \ {q}]
       /\ sealed' = IF ~token[t] /\ Exists(filePath)
                    THEN sealed \cup {filePath} ELSE sealed
    /\ AfterUnwrap(t, token[t], TRUE)
    /\ lock_' = Released(t)
    /\ UNCHANGED <<isEnabled_, files, crashed, ctx, token, rvars>>

\* ------------------------------------------------------------------ fetch

\* MeshCache::fetch and MeshCacheImpl::fetch up to the hit check, which is
\* made under the lock; the lock is released before readCache.  The facade
\* does not consult isEnabled_.  A caller comes from idle, or straight from
\* the unwrap of its own build with the same context.
fetchCheck(t, context) ==
    /\ ~crashed
    /\ \/ pc[t] = "idle"
       \/ pc[t] = "unwrap_done" /\ context = ctx[t]
    /\ lock_ = NoThread
    /\ ctx' = [ctx EXCEPT ![t] = context]
    /\ token' = [token EXCEPT ![t] = FALSE]
    /\ delivered' = [delivered EXCEPT ![t] = <<>>]
    /\ IF isCacheHit(context.quadKey, getFilePath(context))
       THEN /\ pc' = [pc EXCEPT ![t] = "fetch_open"]
            /\ UNCHANGED ret
       ELSE /\ pc' = [pc EXCEPT ![t] = "fetch_done"]
            /\ ret' = [ret EXCEPT ![t] = "false"]
    /\ found' = [found EXCEPT ![t] = FALSE]
    /\ UNCHANGED <<isEnabled_, lock_, cachingQuads_, files, crashed, sref, alias, opened,
                   produced, rpos, rlinked, rsnap, kept, sealed>>

\* readCache: file.open(filePath, in | binary | app) and seekg(0).  The mode
\* creates a missing file when its directory exists.
readOpen(t) ==
    /\ ~crashed
    /\ pc[t] = "fetch_open"
    /\ LET filePath == getFilePath(ctx[t]) IN
       /\ files' = IF ~Exists(filePath) /\ DirectoryOf(filePath) \in Directories
                   THEN Put(files, filePath, <<>>)
                   ELSE files
       /\ rlinked' = [rlinked EXCEPT ![t] =
                         Exists(filePath) \/ DirectoryOf(filePath) \in Directories]
    /\ rsnap' = [rsnap EXCEPT ![t] = <<>>]
    /\ rpos' = [rpos EXCEPT ![t] = 0]
    /\ pc' = [pc EXCEPT ![t] = "read"]
    /\ UNCHANGED <<isEnabled_, lock_, cachingQuads_, crashed, ctx, token, sref, alias,
                   opened, produced, delivered, ret, hvars>>

RECURSIVE SkipWhitespace(_, _)
\* The sentry of `file >> type`: skipws is set, so the extraction first
\* passes over whitespace.  The result is the number of bytes before the
\* byte that is extracted.
SkipWhitespace(data, pos) ==
    IF pos < Len(data) /\ data[pos + 1] \in Whitespace
    THEN SkipWhitespace(data, pos + 1)
    ELSE pos

\* MeshStream::read / ElementStream::read: the codecs are external; each
\* consumes the payload its write wrote.
MeshStreamRead(payload) == Mesh(payload[1])
ElementStreamRead(payload, id) == Element(id, payload[1])

\* One pass of the loop of readCache over `data` from `pos`: what happens
\* (the loop ends, a callback is called with a value, the tag is unknown),
\* and the read position after it.  A record cut short by the end of the
\* file leaves the identifier or the payload indeterminate.
ReadRecord(data, pos) ==
    LET at == SkipWhitespace(data, pos)
        type == data[at + 1]
        size == IF type = MeshType THEN 1 + PayloadSize ELSE 1 + IdSize + PayloadSize
    IN
    IF at >= Len(data)
    THEN {[what |-> "end", value |-> Mesh(0), pos |-> Len(data)]}
    ELSE IF type # MeshType /\ type # ElementType
    THEN {[what |-> "throw", value |-> Mesh(0), pos |-> at + 1]}
    ELSE IF at + size > Len(data)
    THEN {[what |-> "value", value |-> v, pos |-> Len(data)] :
            v \in {x \in Indeterminate :
                     x.kind = IF type = MeshType THEN "mesh" ELSE "element"}}
    ELSE IF type = MeshType
    THEN {[what |-> "value",
           value |-> MeshStreamRead(SubSeq(data, at + 2, at + size)),
           pos |-> at + size]}
    ELSE {[what |-> "value",
           value |-> ElementStreamRead(
                         SubSeq(data, at + 2 + IdSize, at + size),
                         FromObjectBytes(SubSeq(data, at + 2, at + 1 + IdSize))),
           pos |-> at + size]}

\* A readCache whose loop never looks at the token.
isCancelled_Never(t) == FALSE

\* cancelToken.isCancelled(), as the loop of readCache asks it.
isCancelled(t) == token[t]

\* readCache: one pass of `while (!cancelToken.isCancelled())`.  The loop
\* ends when the token is cancelled or the extraction of the tag fails;
\* fetch then returns true.  An unknown tag throws std::invalid_argument out
\* of fetch.
readStep(t) ==
    /\ ~crashed
    /\ pc[t] = "read"
    /\ IF isCancelled(t)
       THEN /\ pc' = [pc EXCEPT ![t] = "fetch_done"]
            /\ ret' = [ret EXCEPT ![t] = "true"]
            /\ UNCHANGED <<rpos, delivered>>
       ELSE \E r \in ReadRecord(View(t), rpos[t]) :
            /\ rpos' = [rpos EXCEPT ![t] = r.pos]
            /\ IF r.what = "value"
               THEN /\ delivered' = [delivered EXCEPT ![t] = Append(@, r.value)]
                    /\ UNCHANGED <<pc, ret>>
               ELSE /\ pc' = [pc EXCEPT ![t] = "fetch_done"]
                    /\ ret' = [ret EXCEPT ![t] = IF r.what = "end" THEN "true" ELSE "error"]
                    /\ UNCHANGED delivered
    /\ UNCHANGED <<isEnabled_, lock_, cachingQuads_, files, crashed, ctx, token, sref,
                   alias, opened, produced, rlinked, rsnap, hvars>>

\* The owner of the token cancels it while fetch is running.
cancel(t) ==
    /\ ~crashed
    /\ pc[t] \in {"fetch_open", "read"}
    /\ ~token[t]
    /\ token' = [token EXCEPT ![t] = TRUE]
    /\ UNCHANGED <<isEnabled_, lock_, cachingQuads_, files, crashed, pc, ctx, sref, alias,
                   opened, produced, delivered, rvars, hvars>>

\* The caller is done with the call and its context.
return(t) ==
    /\ ~crashed
    /\ pc[t] \in {"unwrap_done", "fetch_done"}
    /\ pc' = [pc EXCEPT ![t] = "idle"]
    /\ ctx' = [ctx EXCEPT ![t] = NoContext]
    /\ token' = [token EXCEPT ![t] = FALSE]
    /\ sref' = [sref EXCEPT ![t] = "none"]
    /\ alias' = [alias EXCEPT ![t] = {}]
    /\ opened' = [opened EXCEPT ![t] = FALSE]
    /\ produced' = [produced EXCEPT ![t] = <<>>]
    /\ delivered' = [delivered EXCEPT ![t] = <<>>]
    /\ rpos' = [rpos EXCEPT ![t] = 0]
    /\ rlinked' = [rlinked EXCEPT ![t] = FALSE]
    /\ rsnap' = [rsnap EXCEPT ![t] = <<>>]
    /\ ret' = [ret EXCEPT ![t] = "none"]
    /\ found' = [found EXCEPT ![t] = FALSE]
    /\ kept' = [kept EXCEPT ![t] = FALSE]
    /\ UNCHANGED <<isEnabled_, lock_, cachingQuads_, files, crashed, sealed>>

\* ------------------------------------------------------- the enable flag

\* MeshCache::enable / MeshCache::disable.
enable ==
    /\ ~crashed
    /\ ~isEnabled_
    /\ isEnabled_' = TRUE
    /\ UNCHANGED <<lock_, cachingQuads_, files, crashed, tvars, rvars, hvars>>

disable ==
    /\ ~crashed
    /\ isEnabled_
    /\ isEnabled_' = FALSE
    /\ UNCHANGED <<lock_, cachingQuads_, files, crashed, tvars, rvars, hvars>>

\* ---------------------------------------------------------- specifications

\* The steps of thread t, a caller that works on the tiles `contexts`.
Step(t, contexts) ==
    \/ \E c \in contexts : wrap(t, c)
    \/ callback(t)
    \/ \E cancelled \in BOOLEAN : unwrapRemove(t, cancelled)
    \/ unwrapErase(t)
    \/ \E c \in contexts : fetchCheck(t, c)
    \/ readOpen(t)
    \/ readStep(t)
    \/ cancel(t)
    \/ return(t)

\* Two threads build and load one tile in both styles while the flag is
\* switched.
TileContexts == {c \in Contexts : c.quadKey = [levelOfDetail |-> 1, code |-> "0"]}

Next ==
    \/ \E t \in Callers : Step(t, TileContexts)
    \/ enable
    \/ disable

Spec == Init /\ [][Next]_vars

\* The cache files a start-up can find on disk: left by an earlier run, or
\* damaged since.
InitialContents ==
    { <<>>,                                  \* an empty file
      <<32>>,                                \* one whitespace byte
      <<2>>,                                 \* one byte that is no tag
      <<10, 1, 32>>,                         \* a newline, then a mesh record
      <<1, 32>> \o <<0, 42, 0, 0, 0, 0, 0, 0, 0, 7>>,
      <<1>> }                                \* a mesh tag without a payload

\* The cache starts on a disk that holds one cache file, and its callers
\* only fetch.
ReplayInit ==
    \E c \in Contexts, data \in InitialContents :
        /\ DirectoryOf(getFilePath(c)) \in Directories
        /\ Start(Put(<< >>, getFilePath(c), data))

ReplayNext ==
    \E t \in Callers :
        \/ \E c \in Contexts : fetchCheck(t, c)
        \/ readOpen(t)
        \/ readStep(t)
        \/ cancel(t)
        \/ return(t)

ReplaySpec == ReplayInit /\ [][ReplayNext]_vars

\* The steps of a thread that builds one of the tiles `contexts`, once.
BuildOnce(t, contexts) ==
    \/ \E c \in contexts : wrap(t, c)
    \/ callback(t)
    \/ \E cancelled \in BOOLEAN : unwrapRemove(t, cancelled)
    \/ unwrapErase(t)

\* The steps of a thread that builds the tiles `contexts` again and again
\* and never loads.
Build(t, contexts) ==
    \/ BuildOnce(t, contexts)
    \/ pc[t] = "unwrap_done" /\ return(t)

\* The steps of a thread that loads the tiles `contexts`.
Load(t, contexts) ==
    \/ \E c \in contexts : fetchCheck(t, c)
    \/ readOpen(t)
    \/ readStep(t)
    \/ pc[t] = "fetch_done" /\ return(t)

\* One thread loads the tile in style "day" while a second builds it in
\* both styles and a third in style "night".
RaceNext ==
    \/ Load("t1", {c \in TileContexts : c.tag = "day"})
    \/ Build("t2", TileContexts)
    \/ Build("t3", {c \in TileContexts : c.tag = "night"})

RaceSpec == Init /\ [][RaceNext]_vars

\* The other tile.
FarContexts == {c \in Contexts : c.quadKey = [levelOfDetail |-> 2, code |-> "01"]}

\* Two threads build one tile, one in style "day" and one in style "night",
\* while a third builds the other tile and then loads it.
FarNext ==
    \/ BuildOnce("t1", {c \in TileContexts : c.tag = "day"})
    \/ BuildOnce("t2", {c \in TileContexts : c.tag = "night"})
    \/ BuildOnce("t3", {c \in FarContexts : c.tag = "day"})
    \/ Load("t3", {c \in FarContexts : c.tag = "day"})

FarSpec == Init /\ [][FarNext]_vars

\* Two threads build the tile, one in style "day" and one in either style,
\* while a third loads it; a thread that is inside unwrap or fetch keeps
\* running.
LiveNext ==
    \/ BuildOnce("t1", {c \in TileContexts : c.tag = "day"})
    \/ BuildOnce("t2", TileContexts)
    \/ Load("t3", {c \in TileContexts : c.tag = "day"})

Fairness ==
    \A t \in Threads :
        /\ WF_vars(unwrapErase(t))
        /\ WF_vars(readOpen(t))
        /\ WF_vars(readStep(t))

LiveSpec == Init /\ [][LiveNext]_vars /\ Fairness

\* ----------------------------------------------------------------- claims

\* Thread t holds a context whose callbacks wrap replaced with ones that
\* write to a stream opened on the cache file, and has not called unwrap.
Writing(t) == pc[t] = "build" /\ sref[t] # "none" /\ opened[t]

RECURSIVE Records(_)
\* The records of a sequence of values, in order.
Records(values) ==
    IF values = <<>> THEN <<>> ELSE Record(Head(values)) \o Records(Tail(values))

\* C1: no two callers hold, at the same time, a writing context for the
\* same quadkey.
C1_OneSessionPerQuadKey ==
    \A t \in Threads, u \in Threads :
        (t # u /\ Writing(t) /\ Writing(u)) => ctx[t].quadKey # ctx[u].quadKey

\* C2: a cache file whose quadkey has no registry entry is not being written:
\* no caller still holds a writing context for it, and once the caller of a
\* kept build has finalized, the file holds exactly the records of that build.
C2_NoUnattendedPartialFile ==
    \A t \in Threads :
        LET filePath == getFilePath(ctx[t]) IN
        (Exists(filePath) /\ ~HasEntry(ctx[t].quadKey)) =>
            /\ ~Writing(t)
            /\ (pc[t] = "unwrap_done" /\ kept[t]) => files[filePath] = Records(produced[t])

\* C3: a fetch that follows a build that was wrapped on a miss and finalized
\* without cancellation, with a token that is not cancelled, returns true and
\* replays exactly the values of the build, in order.  (A fetch made while a
\* session is open for the quadkey is a miss by hit precedence and is not
\* counted against the round trip.)
C3_RoundTrip ==
    [][\A t \in Threads :
          (kept[t] /\ pc[t] # "fetch_done" /\ pc'[t] = "fetch_done" /\ ~token'[t]) =>
              IF pc[t] = "unwrap_done"
              THEN HasEntry(ctx[t].quadKey)
              ELSE ret'[t] = "true" /\ delivered'[t] = produced[t]]_vars

\* C4: when a caller that was handed a writing context finalizes with a
\* cancelled token, the cache file of its slot does not exist afterwards and
\* the slot is no hit.
C4_CancellationDiscards ==
    [][\A t \in Threads :
          (pc[t] \in {"build", "unwrap_erase"} /\ pc'[t] = "unwrap_done"
           /\ token'[t] /\ sref[t] # "none" /\ opened[t]) =>
              /\ getFilePath(ctx[t]) \notin DOMAIN files'
              /\ ~(ctx[t].quadKey \notin DOMAIN cachingQuads_'
                   /\ getFilePath(ctx[t]) \in DOMAIN files')]_vars

\* C5: the file of a session that wrote records and was finalized without
\* cancellation is never deleted and never appended to by a later step.
C5_Permanence ==
    [][\A p \in Paths :
          (p \in sealed /\ Exists(p) /\ files[p] # <<>>) =>
              (p \in DOMAIN files' /\ files'[p] = files[p])]_vars

\* C6: a fetch that hits a file whose first byte is neither 0x00 nor 0x01,
\* with a token that is not cancelled, ends in the data-format error and
\* calls no callback.
C6_CorruptionDetected ==
    \A t \in Threads :
        LET filePath == getFilePath(ctx[t]) IN
        (pc[t] = "fetch_done" /\ ret[t] # "false" /\ ~token[t]
         /\ Exists(filePath) /\ files[filePath] # <<>>
         /\ files[filePath][1] \notin {ElementType, MeshType}) =>
            (ret[t] = "error" /\ delivered[t] = <<>>)

\* C7: the hit check of fetch and of an enabled wrap answers true exactly
\* when the quadkey has no registry entry and a file exists at the path; on a
\* miss fetch returns false and calls no callback, and wrap returns a context
\* with replaced callbacks.
C7_HitIffNoSessionAndFile ==
    [][\A t \in Threads :
          LET hit == ctx'[t].quadKey \notin DOMAIN cachingQuads_
                     /\ getFilePath(ctx'[t]) \in DOMAIN files
          IN
          /\ (pc[t] \in {"idle", "unwrap_done"} /\ pc'[t] \in {"fetch_open", "fetch_done"}) =>
                /\ (pc'[t] = "fetch_open") <=> hit
                /\ (pc'[t] = "fetch_done") => (ret'[t] = "false" /\ delivered'[t] = <<>>)
          /\ (pc[t] = "idle" /\ pc'[t] = "build" /\ isEnabled_) =>
                ((sref'[t] = "none") <=> hit)]_vars

\* C7 witness: a fetch has returned false for a slot whose complete file
\* exists, while a session for the quadkey is open.
C7_Witness ==
    \E t \in Threads :
        /\ pc[t] = "fetch_done" /\ ret[t] = "false"
        /\ HasEntry(ctx[t].quadKey)
        /\ getFilePath(ctx[t]) \in sealed /\ Exists(getFilePath(ctx[t]))
        /\ files[getFilePath(ctx[t])] # <<>>

\* C8: an unwrap for a quadkey that has no registry entry, cancelled or not,
\* returns without an error and leaves the registry and every file as they
\* are.
C8_NoSessionFinalizeIsNoOp ==
    [][\A t \in Threads :
          (pc[t] = "build" /\ pc'[t] # "build" /\ ~HasEntry(ctx[t].quadKey)) =>
              /\ pc'[t] = "unwrap_done"
              /\ cachingQuads_' = cachingQuads_
              /\ files' = files
              /\ lock_' = lock_
              /\ ~crashed']_vars

\* C8 witness: a cancelled unwrap has found no entry and the file of its
\* slot is still there.
C8_Witness ==
    \E t \in Threads :
        /\ pc[t] = "unwrap_done" /\ ~found[t] /\ token[t]
        /\ Exists(getFilePath(ctx[t])) /\ files[getFilePath(ctx[t])] # <<>>

\* C9: when a cancelled unwrap erases the registry entry, it holds the lock
\* and the file the entry's stream was opened on has already been deleted.
C9_RemovedBeforeErased ==
    [][\A t \in Threads :
          (pc[t] = "unwrap_erase" /\ pc'[t] = "unwrap_done" /\ token[t]) =>
              /\ lock_ = t
              /\ ~Exists(cachingQuads_[ctx[t].quadKey].path)]_vars

\* C10: while the flag is disabled, wrap returns the context as it is, fetch
\* returns false without a replay, and none of wrap, fetch and unwrap changes
\* the registry or a file.
C10_DisabledDoesNothing ==
    [][\A t \in Threads :
          (~isEnabled_ /\ pc'[t] # pc[t]
           /\ pc[t] \in {"idle", "build", "unwrap_done"} /\ pc'[t] # "idle") =>
              /\ cachingQuads_' = cachingQuads_
              /\ files' = files
              /\ pc[t] = "idle" /\ pc'[t] = "build" => sref'[t] = "none"
              /\ pc'[t] # "fetch_open"]_vars

\* Thread t is inside fetch after a hit check that succeeded, on the file
\* at the path of its context: it is about to open it, or has it open and
\* the path still names it.
Replaying(t) == pc[t] = "fetch_open" \/ (pc[t] = "read" /\ rlinked[t])

\* C11: from the hit check of a fetch to the end of its replay, no stream is
\* open for writing on the file being replayed and no byte is appended to it.
C11_NoWriterDuringReplay ==
    \A t \in Threads :
        Replaying(t) =>
            \A q \in DOMAIN cachingQuads_ :
                ~(cachingQuads_[q].path = getFilePath(ctx[t]) /\ cachingQuads_[q].open)

\* C12: when the caller that registered a session closes it without
\* cancellation, the cache file, which did not exist when the session
\* started, holds exactly the records of the values the caller's builder
\* produced, in order: tag 1 and the payload for a mesh, tag 0, the 8 bytes of
\* the identifier and the payload for an element, and nothing else.
C12_RecordFormat ==
    [][\A t \in Threads :
          (pc[t] = "unwrap_erase" /\ pc'[t] = "unwrap_done"
           /\ sref[t] = "live" /\ opened[t] /\ ~token[t]) =>
              LET filePath == getFilePath(ctx[t]) IN
              /\ filePath \in DOMAIN files'
              /\ files'[filePath] = Records(produced[t])]_vars

\* C13: a slot whose file exists with no record in it and whose quadkey has
\* no registry entry is a miss: fetch returns false and an enabled wrap
\* returns a context with replaced callbacks and registers a session.
C13_EmptyFileIsAbsent ==
    [][\A t \in Threads :
          LET filePath == getFilePath(ctx'[t])
              empty == /\ filePath \in DOMAIN files /\ files[filePath] = <<>>
                       /\ ctx'[t].quadKey \notin DOMAIN cachingQuads_
          IN
          /\ (pc[t] \in {"idle", "unwrap_done"} /\ pc'[t] \in {"fetch_open", "fetch_done"}
              /\ empty) =>
                (pc'[t] = "fetch_done" /\ ret'[t] = "false")
          /\ (pc[t] = "idle" /\ pc'[t] = "build" /\ isEnabled_ /\ empty) =>
                (sref'[t] # "none" /\ ctx'[t].quadKey \in DOMAIN cachingQuads_')]_vars

\* C14: every call of a callback that wrap replaced, on a stream whose open
\* succeeded, appends the whole record of the value to the cache file of the
\* caller's slot and passes the value, unchanged and once, to the caller's
\* own callback: the record is on the stream no later than the value reaches
\* the caller, and the caller receives what its builder produced.
C14_PersistThenForward ==
    [][\A t \in Threads :
          (pc[t] = "build" /\ produced'[t] # produced[t] /\ sref[t] # "none") =>
              LET value == produced'[t][Len(produced'[t])]
                  filePath == getFilePath(ctx[t])
              IN
              /\ ~crashed'
              /\ delivered'[t] = Append(delivered[t], value)
              /\ (opened[t] /\ Exists(filePath)) =>
                    /\ filePath \in DOMAIN files'
                    /\ files'[filePath] = files[filePath] \o Record(value)]_vars

\* C15: no call of a callback that wrap returned uses a stream that has
\* been destroyed: not after wrap has returned, not after unwrap has erased
\* the registry entry, not for a wrap that found an entry for the quadkey.
C15_CallbacksStayValid ==
    [][\A t \in Threads :
          (pc[t] = "build" /\ produced'[t] # produced[t]) => sref[t] # "dangling"]_vars

\* C16: once the token of a fetch is cancelled, readCache reads no further
\* record: no callback is called any more, the loop ends without an error,
\* fetch returns true, and the values the callbacks received are the records
\* at the front of the file, in the order of the file.
C16_CancelledReplayStops ==
    [][\A t \in Threads :
          (pc[t] = "read" /\ token[t]) =>
              /\ delivered'[t] = delivered[t]
              /\ pc'[t] # pc[t] =>
                    /\ pc'[t] = "fetch_done"
                    /\ ret'[t] = "true"
                    /\ Records(delivered[t]) = SubSeq(View(t), 1, rpos[t])]_vars

\* C16 witness: a fetch has returned true after a cancellation that stopped
\* it between two records of its file.
C16_Witness ==
    \E t \in Threads :
        /\ pc[t] = "fetch_done" /\ token[t] /\ ret[t] = "true"
        /\ delivered[t] # <<>>
        /\ rlinked[t] /\ rpos[t] < Len(View(t))

\* C17: when the open of the cache file fails in a wrap on a miss, nothing is
\* raised: the quadkey has a registry entry and the caller is handed replaced
\* callbacks; every value its builder produces reaches the caller's own
\* callback unchanged while no file changes; its unwrap leaves no entry for
\* the quadkey; and a fetch of the slot afterwards returns false.
C17_FailedOpenIsSilent ==
    [][\A t \in Threads :
          LET failed == sref[t] # "none" /\ ~opened[t] IN
          /\ (pc[t] = "idle" /\ pc'[t] = "build" /\ isEnabled_
              /\ ~isCacheHit(ctx'[t].quadKey, getFilePath(ctx'[t]))
              /\ ~OpenForAppend(getFilePath(ctx'[t]))) =>
                /\ ~crashed'
                /\ sref'[t] # "none"
                /\ ctx'[t].quadKey \in DOMAIN cachingQuads_'
          /\ (pc[t] = "build" /\ produced'[t] # produced[t] /\ failed) =>
                /\ ~crashed'
                /\ delivered'[t] = Append(delivered[t], produced'[t][Len(produced'[t])])
                /\ files' = files
          /\ (pc[t] \in {"build", "unwrap_erase"} /\ pc'[t] = "unwrap_done" /\ failed) =>
                ctx[t].quadKey \notin DOMAIN cachingQuads_'
          /\ (pc[t] \in {"idle", "unwrap_done"} /\ pc'[t] \in {"fetch_open", "fetch_done"}
              /\ ~OpenForAppend(getFilePath(ctx'[t]))) =>
                (pc'[t] = "fetch_done" /\ ret'[t] = "false")]_vars

\* C18: an unwrap that finds a registry entry and whose token is cancelled
\* deletes the file the entry's stream was opened on, and no other file,
\* whatever the style tag of the context it is called with.
C18_CancelDeletesSessionFile ==
    [][\A t \in Threads :
          (pc[t] = "build" /\ pc'[t] = "unwrap_erase" /\ token'[t]) =>
              LET filePath == cachingQuads_[ctx[t].quadKey].path IN
              /\ filePath \notin DOMAIN files'
              /\ \A p \in DOMAIN files \ {filePath} :
                    p \in DOMAIN files' /\ files'[p] = files[p]]_vars

\* Thread t takes a step of wrap, fetch or unwrap (not of a callback of its
\* builder, and not the return to its caller).
Calling(t) ==
    \/ pc'[t] # pc[t] /\ pc'[t] # "idle"
    \/ pc[t] = "read" /\ delivered'[t] # delivered[t]

\* C19: a step of wrap, fetch or unwrap for one quadkey leaves the registry
\* entry of every other quadkey as it is (not added, not removed, not closed)
\* and leaves every cache file of every other quadkey as it is (not created,
\* not appended to, not deleted).
C19_QuadKeyIsolation ==
    [][\A t \in Threads :
          Calling(t) =>
              \A q \in QuadKeys \ {ctx'[t].quadKey} :
                  /\ (q \in DOMAIN cachingQuads_') = (q \in DOMAIN cachingQuads_)
                  /\ q \in DOMAIN cachingQuads_ => cachingQuads_'[q] = cachingQuads_[q]
                  /\ \A c \in {x \in Contexts : x.quadKey = q} :
                        LET filePath == getFilePath(c) IN
                        /\ (filePath \in DOMAIN files') = (filePath \in DOMAIN files)
                        /\ filePath \in DOMAIN files => files'[filePath] = files[filePath]]_vars

\* C19 witness: a cancelled unwrap for one quadkey has found and erased an
\* entry while the session of another quadkey is open on a file that holds
\* records.
C19_Witness ==
    \E t \in Threads, u \in Threads :
        /\ pc[t] = "unwrap_done" /\ found[t] /\ token[t]
        /\ pc[u] = "build" /\ sref[u] = "live"
        /\ ctx[u].quadKey # ctx[t].quadKey
        /\ Exists(getFilePath(ctx[u])) /\ files[getFilePath(ctx[u])] # <<>>

\* C20: lock_ is held only by a thread inside the critical section of
\* unwrap, never by a thread whose builder is calling callbacks or whose
\* fetch is replaying; and as long as the process lives, a thread that is
\* inside unwrap or fetch returns from it.
C20_LockNeverDeadlocks ==
    /\ [](\A t \in Threads : lock_ = t => pc[t] = "unwrap_erase")
    /\ \A t \in Threads :
          (pc[t] \in {"unwrap_erase", "fetch_open", "read"})
              ~> (pc[t] \in {"unwrap_done", "fetch_done"} \/ crashed)

\* C20 witness: one thread holds the lock inside unwrap while the replay of
\* another has called a callback and is still running.
C20_Witness ==
    \E t \in Threads, u \in Threads :
        /\ lock_ = t /\ pc[t] = "unwrap_erase"
        /\ pc[u] = "read" /\ delivered[u] # <<>>
====
